---- MODULE Spec2Model ----
(***************************************************************************)
(* Model of mp3_cut.py: the time parser, the configuration loader, the     *)
(* segment executor and the batch loop of process_segments / main.         *)
(*                                                                         *)
(* Text is a sequence of one-character strings.  A parsed time is the      *)
(* exact decimal m / 10^e (kept normalised: no trailing zero in m when     *)
(* e > 0), or NaN; Python's binary rounding of decimal seconds is not      *)
(* modelled.  float() and int() are modelled on the characters of          *)
(* Alphabet and the ten digits: blanks, a sign, digits, one dot, and the   *)
(* literal "nan".  Exponents, underscores, "inf" and digit strings too     *)
(* long for a double use characters or lengths outside the bounds.         *)
(*                                                                         *)
(* Documents are JSON objects whose entries are objects and whose times    *)
(* are text (a JSON number reaches the parser through str()).  On these    *)
(* inputs the body of an iteration raises nothing but the parser's         *)
(* ValueError, cut_segment catching whatever subprocess.run raises, so the *)
(* handler "except Exception" of the loop has no step here.                *)
(***************************************************************************)
EXTENDS Integers, Sequences, FiniteSets, TLC

\* ---------------------------------------------------------------- bounds
MaxLen == 5
MaxSegs == 2

\* ------------------------------------------------------------- text tools
Digits == {"0", "1", "2", "3", "4", "5", "6", "7", "8", "9"}

DigitVal(c) ==
    CASE c = "0" -> 0 [] c = "1" -> 1 [] c = "2" -> 2 [] c = "3" -> 3
      [] c = "4" -> 4 [] c = "5" -> 5 [] c = "6" -> 6 [] c = "7" -> 7
      [] c = "8" -> 8 [] c = "9" -> 9

RECURSIVE Pow10(_)
Pow10(n) == IF n = 0 THEN 1 ELSE 10 * Pow10(n - 1)

RECURSIVE LStrip(_)
LStrip(s) == IF s # <<>> /\ Head(s) = " " THEN LStrip(Tail(s)) ELSE s

RECURSIVE RStrip(_)
RStrip(s) ==
    IF s # <<>> /\ s[Len(s)] = " " THEN RStrip(SubSeq(s, 1, Len(s) - 1)) ELSE s

\* str.strip() on blanks
Strip(s) == RStrip(LStrip(s))

\* str.split(':'): the fields between the colons, empty fields kept
RECURSIVE SplitFrom(_, _, _)
SplitFrom(s, k, cur) ==
    IF k > Len(s) THEN <<cur>>
    ELSE IF s[k] = ":" THEN <<cur>> \o SplitFrom(s, k + 1, <<>>)
    ELSE SplitFrom(s, k + 1, Append(cur, s[k]))

Split(s) == SplitFrom(s, 1, <<>>)

AllDigits(s) == \A k \in 1..Len(s) : s[k] \in Digits

RECURSIVE DigitsValue(_)
DigitsValue(s) ==
    IF s = <<>> THEN 0
    ELSE 10 * DigitsValue(SubSeq(s, 1, Len(s) - 1)) + DigitVal(s[Len(s)])

HasSign(s) == s # <<>> /\ Head(s) \in {"-", "+"}
Unsigned(s) == IF HasSign(s) THEN Tail(s) ELSE s
SignOf(s) == IF s # <<>> /\ Head(s) = "-" THEN -1 ELSE 1

\* ------------------------------------------------------------ time values
NaN == [nan |-> TRUE, m |-> 0, e |-> 0]

RECURSIVE Norm(_, _)
Norm(m, e) ==
    IF e > 0 /\ m % 10 = 0 THEN Norm(m \div 10, e - 1)
    ELSE [nan |-> FALSE, m |-> m, e |-> e]

Num(n) == [nan |-> FALSE, m |-> n, e |-> 0]

\* integer + float
AddInt(n, v) == IF v.nan THEN NaN ELSE Norm(n * Pow10(v.e) + v.m, v.e)

\* a >= b on floats: every comparison with NaN is false
Geq(a, b) == ~a.nan /\ ~b.nan /\ a.m * Pow10(b.e) >= b.m * Pow10(a.e)

\* ---------------------------------------------------------- int(), float()
\* int(text) succeeds: blanks around an optional sign and at least one digit
IntOk(s) ==
    LET u == Unsigned(Strip(s)) IN u # <<>> /\ AllDigits(u)

IntVal(s) ==
    LET t == Strip(s) IN SignOf(t) * DigitsValue(Unsigned(t))

DotCount(s) == Cardinality({k \in 1..Len(s) : s[k] = "."})
DotPos(s) == CHOOSE k \in 1..Len(s) : s[k] = "."

IsDecimal(u) ==
    \/ u # <<>> /\ AllDigits(u)
    \/ /\ DotCount(u) = 1
       /\ Len(u) >= 2
       /\ AllDigits(SubSeq(u, 1, DotPos(u) - 1))
       /\ AllDigits(SubSeq(u, DotPos(u) + 1, Len(u)))

DecimalValue(u) ==
    IF DotCount(u) = 0 THEN Num(DigitsValue(u))
    ELSE LET ip == SubSeq(u, 1, DotPos(u) - 1)
             fp == SubSeq(u, DotPos(u) + 1, Len(u))
         IN  Norm(DigitsValue(ip) * Pow10(Len(fp)) + DigitsValue(fp), Len(fp))

\* float(text) succeeds
FloatOk(s) ==
    LET u == Unsigned(Strip(s)) IN u = <<"n", "a", "n">> \/ IsDecimal(u)

FloatVal(s) ==
    LET t == Strip(s)
        u == Unsigned(t)
    IN  IF u = <<"n", "a", "n">> THEN NaN
        ELSE LET v == DecimalValue(u) IN Norm(SignOf(t) * v.m, v.e)

\* ------------------------------------------------- parse_time_to_seconds
Ok(v) == [ok |-> TRUE, val |-> v]
ValueError == [ok |-> FALSE, val |-> Num(0)]

MinutesFactor == 60
HoursFactor == 3600

TwoFieldsMutant(parts) ==
    IF IntOk(parts[1]) /\ FloatOk(parts[2])
    THEN Ok(AddInt(IntVal(parts[1]) * 6, FloatVal(parts[2])))
    ELSE ValueError

\* len(parts) == 2: minutes = int(parts[0]); seconds = float(parts[1])
TwoFields(parts) ==
    IF IntOk(parts[1]) /\ FloatOk(parts[2])
    THEN Ok(AddInt(IntVal(parts[1]) * MinutesFactor, FloatVal(parts[2])))
    ELSE ValueError

\* len(parts) == 3: hours, minutes = int(...); seconds = float(parts[2])
ThreeFields(parts) ==
    IF IntOk(parts[1]) /\ IntOk(parts[2]) /\ FloatOk(parts[3])
    THEN Ok(AddInt(IntVal(parts[1]) * HoursFactor
                     + IntVal(parts[2]) * MinutesFactor,
                   FloatVal(parts[3])))
    ELSE ValueError

parse_time_to_seconds(time_str) ==
    LET s == Strip(time_str)
        parts == Split(s)
    IN  IF FloatOk(s) THEN Ok(FloatVal(s))
        ELSE IF Len(parts) = 2 THEN TwoFields(parts)
        ELSE IF Len(parts) = 3 THEN ThreeFields(parts)
        ELSE ValueError

\* ------------------------------------------------------ input documents
Fields == {"start", "end", "output"}

\* time notations a segment may carry: unparsable, 5 s, 10 s, -5 s, NaN
Times ==
    { <<"a", ":", "b">>, <<"5">>, <<"0", ":", "1", "0">>, <<"-", "5">>,
      <<"n", "a", "n">> }

SourcePath == "in.mp3"

Entry(start, end, output) ==
    [keys |-> Fields, start |-> start, end |-> end, output |-> output]

\* every pair of notations under the first output name, and one valid cut
\* under the second
WellFormed ==
    { Entry(s, e, "a.mp3") : s \in Times, e \in Times }
    \cup { Entry(<<"5">>, <<"0", ":", "1", "0">>, "b.mp3") }

\* an entry that lacks at least one field; the fields it has carry a value
Malformed ==
    { [keys |-> K,
       start |-> IF "start" \in K THEN <<"5">> ELSE <<>>,
       end |-> IF "end" \in K THEN <<"0", ":", "1", "0">> ELSE <<>>,
       output |-> IF "output" \in K THEN "a.mp3" ELSE ""] :
      K \in (SUBSET Fields) \ {Fields} }

SegmentSpecs == WellFormed \cup Malformed

SegmentLists == UNION {[1..n -> SegmentSpecs] : n \in 0..MaxSegs}

\* file: whether the path resolves and holds valid JSON; keys: the top-level
\* keys present; segkind: the JSON type of the value of 'segments'
Doc(file, keys, segkind, segs) ==
    [file |-> file, keys |-> keys, segkind |-> segkind, segments |-> segs]

Documents ==
    { Doc("missing", {}, "list", <<>>), Doc("bad_json", {}, "list", <<>>) }
    \cup { Doc("ok", K, "list", <<>>) :
           K \in {{}, {"source"}, {"segments"}} }
    \cup { Doc("ok", {"source", "segments"}, "object", <<>>) }
    \cup { Doc("ok", {"source", "segments"}, "list", segs) :
           segs \in SegmentLists }

\* ------------------------------------------------------------ load_config
NoError == [exc |-> "none", msg |-> "", field |-> "", index |-> -1]
Error(exc, msg, field, index) ==
    [exc |-> exc, msg |-> msg, field |-> field, index |-> index]

SegmentErrorFirstOnly(i, segment) ==
    IF i > 0 THEN NoError
    ELSE IF "start" \notin segment.keys
    THEN Error("ValueError", "Segment: Missing field", "start", i)
    ELSE IF "end" \notin segment.keys
    THEN Error("ValueError", "Segment: Missing field", "end", i)
    ELSE IF "output" \notin segment.keys
    THEN Error("ValueError", "Segment: Missing field", "output", i)
    ELSE NoError

SegmentErrorEndFirst(i, segment) ==
    IF "end" \notin segment.keys
    THEN Error("ValueError", "Segment: Missing field", "end", i)
    ELSE IF "start" \notin segment.keys
    THEN Error("ValueError", "Segment: Missing field", "start", i)
    ELSE IF "output" \notin segment.keys
    THEN Error("ValueError", "Segment: Missing field", "output", i)
    ELSE NoError

\* the body of the validation loop for entry i (zero-based)
SegmentError(i, segment) ==
    IF "start" \notin segment.keys
    THEN Error("ValueError", "Segment: Missing field", "start", i)
    ELSE IF "end" \notin segment.keys
    THEN Error("ValueError", "Segment: Missing field", "end", i)
    ELSE IF "output" \notin segment.keys
    THEN Error("ValueError", "Segment: Missing field", "output", i)
    ELSE NoError

\* for i, segment in enumerate(config['segments']): the first raise wins
RECURSIVE ValidateSegments(_, _)
ValidateSegments(segments, i) ==
    IF i >= Len(segments) THEN NoError
    ELSE LET e == SegmentError(i, segments[i + 1])
         IN  IF e # NoError THEN e ELSE ValidateSegments(segments, i + 1)

\* the exception load_config raises on d, NoError when it returns the config
load_config(d) ==
    IF d.file = "missing"
    THEN Error("FileNotFoundError", "Config file not found", "", -1)
    ELSE IF d.file = "bad_json"
    THEN Error("JSONDecodeError", "", "", -1)
    ELSE IF "source" \notin d.keys
    THEN Error("ValueError", "Missing required field", "source", -1)
    ELSE IF "segments" \notin d.keys
    THEN Error("ValueError", "Missing required field", "segments", -1)
    ELSE IF d.segkind # "list"
    THEN Error("ValueError", "'segments' must be a list", "segments", -1)
    ELSE IF Len(d.segments) = 0
    THEN Error("ValueError", "'segments' cannot be empty", "segments", -1)
    ELSE ValidateSegments(d.segments, 0)

\* ------------------------------------------------------------ cut_segment
\* the argument list handed to subprocess.run; the flags are fixed
cmd(source, start, end, output) ==
    [source |-> source, start |-> start, end |-> end, output |-> output]

\* ------------------------------------------------------------- the program
VARIABLES
    doc,            \* the input document named by argv[1]
    pc,             \* where main() is
    loaded,         \* load_config returned the configuration
    ffmpeg_exe,     \* the binary path, "" until resolved
    source_exists,  \* "unchecked", "yes", "no": what the pre-flight found
    i,              \* enumerate(segments, 1): iterations started
    success_count,
    failed_count,
    calls,          \* the argument lists handed to subprocess.run, in order
    progress,       \* the "[i/n]" lines printed, as the indices i
    diag,           \* the per-segment diagnostic printed for each segment
    exit_code,      \* -1 while the process runs
    error,          \* the exception or fatal message that ended the run
    text,           \* parser on its own: the input
    parsed,
    result

vars ==
    <<doc, pc, loaded, ffmpeg_exe, source_exists, i, success_count,
      failed_count, calls, progress, diag, exit_code, error, text, parsed,
      result>>

runvars ==
    <<doc, pc, loaded, ffmpeg_exe, source_exists, i, success_count,
      failed_count, calls, progress, diag, exit_code, error>>

pvars == <<text, parsed, result>>

RunIdle(d) ==
    /\ doc = d
    /\ loaded = FALSE
    /\ ffmpeg_exe = ""
    /\ source_exists = "unchecked"
    /\ i = 0
    /\ success_count = 0
    /\ failed_count = 0
    /\ calls = <<>>
    /\ progress = <<>>
    /\ diag = <<>>
    /\ exit_code = -1
    /\ error = NoError

Init ==
    /\ \E d \in Documents : RunIdle(d)
    /\ pc = "main"
    /\ text = <<>>
    /\ parsed = TRUE
    /\ result = ValueError

Exit(code, err) ==
    /\ pc' = "exited"
    /\ exit_code' = code
    /\ error' = err

\* main, the argument check
Main ==
    /\ pc = "main"
    /\ \E argc \in {1, 2, 3} :
         IF argc # 2
         THEN Exit(1, Error("usage", "Usage: mp3_cut.py <config.json>", "", -1))
         ELSE /\ pc' = "load_config"
              /\ UNCHANGED <<exit_code, error>>
    /\ UNCHANGED <<doc, loaded, ffmpeg_exe, source_exists, i, success_count,
                   failed_count, calls, progress, diag, pvars>>

\* main: config = load_config(config_path), every handler exits with 1
LoadConfig ==
    /\ pc = "load_config"
    /\ LET e == load_config(doc)
       IN  IF e = NoError
           THEN /\ loaded' = TRUE
                /\ pc' = "get_ffmpeg_executable"
                /\ UNCHANGED <<exit_code, error>>
           ELSE /\ Exit(1, e)
                /\ UNCHANGED loaded
    /\ UNCHANGED <<doc, ffmpeg_exe, source_exists, i, success_count,
                   failed_count, calls, progress, diag, pvars>>

\* main: ffmpeg_exe = get_ffmpeg_executable()
GetFfmpegExecutable ==
    /\ pc = "get_ffmpeg_executable"
    /\ \E found \in {"ok", "ImportError", "RuntimeError"} :
         IF found = "ok"
         THEN /\ ffmpeg_exe' = "ffmpeg"
              /\ pc' = "process_segments"
              /\ UNCHANGED <<exit_code, error>>
         ELSE /\ Exit(1, Error(found, "", "", -1))
              /\ UNCHANGED ffmpeg_exe
    /\ UNCHANGED <<doc, loaded, source_exists, i, success_count,
                   failed_count, calls, progress, diag, pvars>>

PreflightIgnoresMissing ==
    /\ pc = "process_segments"
    /\ \E exists \in BOOLEAN :
         /\ source_exists' = IF exists THEN "yes" ELSE "no"
         /\ pc' = "loop"
         /\ UNCHANGED <<exit_code, error>>
    /\ UNCHANGED <<doc, loaded, ffmpeg_exe, i, success_count, failed_count,
                   calls, progress, diag, pvars>>

\* process_segments up to the loop: the source must exist
Preflight ==
    /\ pc = "process_segments"
    /\ \E exists \in BOOLEAN :
         IF exists
         THEN /\ source_exists' = "yes"
              /\ pc' = "loop"
              /\ UNCHANGED <<exit_code, error>>
         ELSE /\ source_exists' = "no"
              /\ Exit(1, Error("SystemExit", "Source file not found", "", -1))
    /\ UNCHANGED <<doc, loaded, ffmpeg_exe, i, success_count, failed_count,
                   calls, progress, diag, pvars>>

\* ----------------------------------------------- process_segments, the loop
\* parse_time_to_seconds on each notation an entry may carry, computed once
TimeTexts == Times \cup {<<>>}
Parsed[t \in TimeTexts] == parse_time_to_seconds(t)

IterationStopsOnFailure ==
    /\ pc = "loop"
    /\ i < Len(doc.segments)
    /\ LET segment == doc.segments[i + 1]
           start_seconds == Parsed[segment.start]
           end_seconds == Parsed[segment.end]
       IN  /\ i' = i + 1
           /\ progress' = Append(progress, i + 1)
           /\ IF ~start_seconds.ok \/ ~end_seconds.ok
              THEN /\ failed_count' = failed_count + 1
                   /\ diag' = Append(diag, "Time parse error")
                   /\ Exit(0, NoError)
                   /\ UNCHANGED calls
              ELSE IF Geq(start_seconds.val, end_seconds.val)
              THEN /\ failed_count' = failed_count + 1
                   /\ diag' = Append(diag, "Invalid time range")
                   /\ Exit(0, NoError)
                   /\ UNCHANGED calls
              ELSE /\ calls' = Append(calls, cmd(SourcePath, start_seconds.val,
                                                 end_seconds.val, segment.output))
                   /\ pc' = "cut_segment"
                   /\ UNCHANGED <<failed_count, diag, exit_code, error>>
    /\ UNCHANGED <<doc, loaded, ffmpeg_exe, source_exists, success_count, pvars>>

IterationNamesByCount ==
    /\ pc = "loop"
    /\ i < Len(doc.segments)
    /\ LET segment == doc.segments[i + 1]
           start_seconds == Parsed[segment.start]
           end_seconds == Parsed[segment.end]
       IN  /\ i' = i + 1
           /\ progress' = Append(progress, i + 1)
           /\ IF ~start_seconds.ok \/ ~end_seconds.ok
              THEN /\ failed_count' = failed_count + 1
                   /\ diag' = Append(diag, "Time parse error")
                   /\ UNCHANGED <<calls, pc>>
              ELSE IF Geq(start_seconds.val, end_seconds.val)
              THEN /\ failed_count' = failed_count + 1
                   /\ diag' = Append(diag, "Invalid time range")
                   /\ UNCHANGED <<calls, pc>>
              ELSE /\ calls' = Append(calls,
                         cmd(SourcePath, start_seconds.val, end_seconds.val,
                             doc.segments[success_count + 1].output))
                   /\ pc' = "cut_segment"
                   /\ UNCHANGED <<failed_count, diag>>
    /\ UNCHANGED <<doc, loaded, ffmpeg_exe, source_exists, success_count,
                   exit_code, error, pvars>>

\* one iteration up to the call of subprocess.run, or to its end when the
\* times do not parse (ValueError, caught) or the range is invalid (continue)
Iteration ==
    /\ pc = "loop"
    /\ i < Len(doc.segments)
    /\ LET segment == doc.segments[i + 1]
           start_seconds == Parsed[segment.start]
           end_seconds == Parsed[segment.end]
       IN  /\ i' = i + 1
           /\ progress' = Append(progress, i + 1)
           /\ IF ~start_seconds.ok \/ ~end_seconds.ok
              THEN /\ failed_count' = failed_count + 1
                   /\ diag' = Append(diag, "Time parse error")
                   /\ UNCHANGED <<calls, pc>>
              ELSE IF Geq(start_seconds.val, end_seconds.val)
              THEN /\ failed_count' = failed_count + 1
                   /\ diag' = Append(diag, "Invalid time range")
                   /\ UNCHANGED <<calls, pc>>
              ELSE /\ calls' = Append(calls, cmd(SourcePath, start_seconds.val,
                                                 end_seconds.val, segment.output))
                   /\ pc' = "cut_segment"
                   /\ UNCHANGED <<failed_count, diag>>
    /\ UNCHANGED <<doc, loaded, ffmpeg_exe, source_exists, success_count,
                   exit_code, error, pvars>>

\* subprocess.run returns or raises; cut_segment returns True or False and
\* the iteration counts it
CutSegment ==
    /\ pc = "cut_segment"
    /\ \E ran \in {"returncode 0", "returncode nonzero", "raised"} :
         IF ran = "returncode 0"
         THEN /\ success_count' = success_count + 1
              /\ diag' = Append(diag, "Successfully created")
              /\ UNCHANGED failed_count
         ELSE /\ failed_count' = failed_count + 1
              /\ diag' = Append(diag, IF ran = "raised"
                                       THEN "Exception occurred"
                                       ELSE "Failed to cut segment")
              /\ UNCHANGED success_count
    /\ pc' = "loop"
    /\ UNCHANGED <<doc, loaded, ffmpeg_exe, source_exists, i, calls, progress,
                   exit_code, error, pvars>>

SummaryExitsWithFailures ==
    /\ pc = "loop"
    /\ i = Len(doc.segments)
    /\ Exit(IF failed_count > 0 THEN 1 ELSE 0, NoError)
    /\ UNCHANGED <<doc, loaded, ffmpeg_exe, source_exists, i, success_count,
                   failed_count, calls, progress, diag, pvars>>

\* the loop is over: the summary is printed, main returns, exit status 0
Summary ==
    /\ pc = "loop"
    /\ i = Len(doc.segments)
    /\ Exit(0, NoError)
    /\ UNCHANGED <<doc, loaded, ffmpeg_exe, source_exists, i, success_count,
                   failed_count, calls, progress, diag, pvars>>

Next ==
    \/ Main
    \/ LoadConfig
    \/ GetFfmpegExecutable
    \/ Preflight
    \/ Iteration
    \/ CutSegment
    \/ Summary

Spec == Init /\ [][Next]_vars

\* ------------------------------------------------------------------ claims
AllKeys == {"source", "segments"}

IsSegmentList(d) == d.file = "ok" /\ d.keys = AllKeys /\ d.segkind = "list"

Lacking(d) == {k \in 1..Len(d.segments) : d.segments[k].keys # Fields}

\* a < b on parsed times, false when either is NaN
Lt(a, b) == ~a.nan /\ ~b.nan /\ a.m * Pow10(b.e) < b.m * Pow10(a.e)

IsNegative(a) == ~a.nan /\ a.m < 0

Started == progress # <<>> \/ calls # <<>> \/ i # 0 \/ diag # <<>>

\* C1: a document with a malformed entry anywhere in the list never gets past
\* load_config: the configuration is not returned, no segment is attempted,
\* the binary is never invoked, and the process ends with exit code 1.
C1_FailFast ==
    (IsSegmentList(doc) /\ Lacking(doc) # {}) =>
        /\ ~loaded
        /\ pc \in {"main", "load_config", "exited"}
        /\ ~Started
        /\ pc = "exited" =>
             /\ exit_code = 1
             /\ error.exc \in {"usage", "ValueError"}

C1_Witness ==
    /\ IsSegmentList(doc)
    /\ Lacking(doc) = {Len(doc.segments)}
    /\ Len(doc.segments) > 1
    /\ pc = "exited"
    /\ error.exc = "ValueError"

\* C2: when the source does not exist the run ends with exit code 1, no
\* segment attempted and no invocation of the binary, whatever the segments.
C2_SourcePreflight ==
    source_exists = "no" =>
        /\ pc = "exited"
        /\ exit_code = 1
        /\ ~Started
        /\ success_count = 0
        /\ failed_count = 0

C2_Witness ==
    /\ source_exists = "no"
    /\ loaded
    /\ Len(doc.segments) = MaxSegs
    /\ pc = "exited"

\* C3: after the pre-flight every segment is started exactly once, in list
\* order, one at a time; every started segment gets exactly one outcome; no
\* outcome ends the loop; the run is never stuck, each step brings the
\* summary closer, and the run ends only by the summary after the last
\* segment.
C3_Order ==
    /\ Len(progress) = i
    /\ \A k \in 1..Len(progress) : progress[k] = k
    /\ Len(diag) = IF pc = "cut_segment" THEN i - 1 ELSE i
    /\ i <= Len(doc.segments)
    /\ (source_exists = "yes" /\ pc # "exited") => ENABLED Next
    /\ (source_exists = "yes" /\ pc = "exited") =>
         /\ i = Len(doc.segments)
         /\ exit_code = 0

StepsLeft ==
    IF pc = "exited" THEN 0
    ELSE 2 * (Len(doc.segments) - i) + (IF pc = "cut_segment" THEN 2 ELSE 1)

C3_Progress == source_exists = "yes" => StepsLeft' < StepsLeft

ParsedBoth(seg) ==
    Parsed[seg.start].ok /\ Parsed[seg.end].ok

InOrder(seg) ==
    Lt(Parsed[seg.start].val, Parsed[seg.end].val)

Succeeded ==
    {k \in 1..Len(diag) :
        /\ ParsedBoth(doc.segments[k])
        /\ InOrder(doc.segments[k])
        /\ diag[k] = "Successfully created"}

\* C4: the run tally as stated above.
C4_Tally ==
    /\ success_count + failed_count = Len(diag)
    /\ (pc = "exited" /\ source_exists = "yes") =>
         /\ success_count = Cardinality(Succeeded)
         /\ failed_count = Len(doc.segments) - Cardinality(Succeeded)

\* C5: a run that loaded its configuration, resolved the binary and found the
\* source ends with exit code 0 whatever the segments did; exit code 1 comes
\* only from a fatal error before any segment is attempted.
FatalPreExecution ==
    {"usage", "FileNotFoundError", "JSONDecodeError", "ValueError",
     "ImportError", "RuntimeError", "SystemExit"}

\* C5: the exit status ignores segment failures.
C5_ExitStatus ==
    pc = "exited" =>
        /\ exit_code \in {0, 1}
        /\ (loaded /\ ffmpeg_exe # "" /\ source_exists = "yes") => exit_code = 0
        /\ exit_code = 1 => (error.exc \in FatalPreExecution /\ ~Started)
        /\ exit_code = 0 => error = NoError

C5_Witness ==
    /\ pc = "exited"
    /\ exit_code = 0
    /\ Len(doc.segments) = MaxSegs
    /\ failed_count = MaxSegs
    /\ \E k \in 1..Len(diag) : diag[k] = "Failed to cut segment"

\* C6: a segment whose start is not less than its end is counted as a failure
\* without an invocation, and every invocation carries start < end.
C6_RangeGuard ==
    /\ \A k \in 1..Len(diag) :
         (ParsedBoth(doc.segments[k])
            /\ Geq(Parsed[doc.segments[k].start].val,
                   Parsed[doc.segments[k].end].val))
         => diag[k] = "Invalid time range"
    /\ \A k \in 1..Len(calls) : Lt(calls[k].start, calls[k].end)

\* C7: no negative start or end reaches the segment executor.
C7_NonNegative ==
    \A k \in 1..Len(calls) :
        ~IsNegative(calls[k].start) /\ ~IsNegative(calls[k].end)

\* C9: load_config fails with the error of the first check that fails, in the
\* order source, segments, list type, non-empty, then the lowest entry lacking
\* a field and its first missing field in the order start, end, output; it
\* returns the configuration exactly when no check fails.
Rank(f) == CASE f = "start" -> 0 [] f = "end" -> 1 [] f = "output" -> 2

FirstMissing(seg) ==
    CHOOSE f \in Fields \ seg.keys :
        \A g \in Fields \ seg.keys : Rank(f) <= Rank(g)

Lowest(S) == CHOOSE k \in S : \A j \in S : k <= j

Expected(d) ==
    IF "source" \notin d.keys
    THEN Error("ValueError", "Missing required field", "source", -1)
    ELSE IF "segments" \notin d.keys
    THEN Error("ValueError", "Missing required field", "segments", -1)
    ELSE IF d.segkind # "list"
    THEN Error("ValueError", "'segments' must be a list", "segments", -1)
    ELSE IF d.segments = <<>>
    THEN Error("ValueError", "'segments' cannot be empty", "segments", -1)
    ELSE IF Lacking(d) # {}
    THEN Error("ValueError", "Segment: Missing field",
               FirstMissing(d.segments[Lowest(Lacking(d))]),
               Lowest(Lacking(d)) - 1)
    ELSE NoError

\* C9: what load_config did is what the ordered checks say.
C9_Classification ==
    (doc.file = "ok" /\ pc \notin {"main", "load_config"} /\ error.exc # "usage")
    => /\ loaded <=> Expected(doc) = NoError
       /\ ~loaded => error = Expected(doc)

C9_Witness ==
    /\ pc = "exited"
    /\ error.msg = "Segment: Missing field"
    /\ error.index = 1
    /\ error.field = "end"

\* C10: the invocations issued so far are a function of the configuration and
\* of the number of segments started: for each started segment with a valid
\* range, in list order, its own start, end and output with the source,
\* whatever the earlier invocations returned and whatever the counters hold.
RECURSIVE ExpectedCalls(_)
ExpectedCalls(n) ==
    IF n = 0 THEN <<>>
    ELSE LET seg == doc.segments[n]
             s == Parsed[seg.start]
             e == Parsed[seg.end]
         IN  IF s.ok /\ e.ok /\ ~Geq(s.val, e.val)
             THEN Append(ExpectedCalls(n - 1),
                         [source |-> SourcePath, start |-> s.val,
                          end |-> e.val, output |-> seg.output])
             ELSE ExpectedCalls(n - 1)

\* C10: the invocations depend on the configuration alone.
C10_Deterministic == calls = ExpectedCalls(i)

C10_Witness ==
    /\ pc = "exited"
    /\ Len(calls) = 2
    /\ calls[1].output # calls[2].output
    /\ diag[1] = "Failed to cut segment"
    /\ diag[2] = "Successfully created"

\* ------------------------------------------------------ parser on its own
Alphabet == {"0", "1", ":", " ", "a", "n", ".", "-"}

Texts(n) == UNION {[1..k -> Alphabet] : k \in 0..n}

Examples ==
    { <<"1", ":", "3", "0">>,
      <<"1", ":", "0", "2", ":", "0", "3">>,
      <<"9", "0">>,
      <<>>,
      <<"a", ":", "b">>,
      <<"1", ":", "2", ":", "3", ":", "4">>,
      <<"0", "0", ":", "1", "0">>,
      <<" ", "1", ":", "0", "2", ":", "0", ".", "5", " ">> }

ParseInit ==
    /\ RunIdle(Doc("missing", {}, "list", <<>>))
    /\ pc = "parse_time_to_seconds"
    /\ text \in Texts(MaxLen) \cup Examples
    /\ parsed = FALSE
    /\ result = ValueError

ParseTime ==
    /\ ~parsed
    /\ parsed' = TRUE
    /\ result' = parse_time_to_seconds(text)
    /\ UNCHANGED <<text, runvars>>

ParseNext == ParseTime

SpecParse == ParseInit /\ [][ParseNext]_vars


\* C8: the parser agrees with the reference: a bare number first, then two
\* fields minutes:seconds, then three fields hours:minutes:seconds, every
\* other text failing; with the spec's examples.
Colons(s) == {k \in 1..Len(s) : s[k] = ":"}

Kth(S, j) == CHOOSE p \in S : Cardinality({q \in S : q < p}) = j - 1

\* the j-th colon-separated field of s
Field(s, j) ==
    LET n == Cardinality(Colons(s))
        lo == IF j = 1 THEN 0 ELSE Kth(Colons(s), j - 1)
        hi == IF j = n + 1 THEN Len(s) + 1 ELSE Kth(Colons(s), j)
    IN  SubSeq(s, lo + 1, hi - 1)

Scaled(n, v) == IF v.nan THEN NaN ELSE Norm(n * Pow10(v.e) + v.m, v.e)

Reference(t) ==
    LET s == Strip(t)
        n == Cardinality(Colons(s)) + 1
    IN  IF FloatOk(s) THEN Ok(FloatVal(s))
        ELSE IF n = 2 /\ IntOk(Field(s, 1)) /\ FloatOk(Field(s, 2))
        THEN Ok(Scaled(60 * IntVal(Field(s, 1)), FloatVal(Field(s, 2))))
        ELSE IF n = 3 /\ IntOk(Field(s, 1)) /\ IntOk(Field(s, 2))
                /\ FloatOk(Field(s, 3))
        THEN Ok(Scaled(3600 * IntVal(Field(s, 1)) + 60 * IntVal(Field(s, 2)),
                       FloatVal(Field(s, 3))))
        ELSE ValueError

====
